---- MODULE Spec2Model ----
(***************************************************************************)
(* A model of TypeScriptCodeMapper (src/src/services/                      *)
(* typescript-code-mapper.service.ts): the declaration extractors, the     *)
(* member aggregator processClassMembers and the run of buildCodebaseMap.  *)
(*                                                                         *)
(* The TypeScript compiler API is the environment.  A node of the parsed   *)
(* tree is a record: its kind, its name (NoName when the node has none),   *)
(* whether reading the name raises (bad), whether it carries a type        *)
(* annotation (typed), the display string the type checker answers for it  *)
(* (resolved), its printed text, its JSDoc text, its initializer text and  *)
(* its parameters and members.                                             *)
(*                                                                         *)
(* Three more parts follow the run: one call of a public extractor on one  *)
(* node, two calls of buildCodebaseMap on one mapper, and findProjectRoot. *)
(***************************************************************************)
EXTENDS Integers, Sequences, FiniteSets, TLC

VARIABLES
    cwd,          \* process.cwd(), a sequence of path segments
    typeChecker,  \* whether this.typeChecker is defined
    previous,     \* how the mapper's previous buildCodebaseMap call ended
    pc,           \* position of buildCodebaseMap
    tsFiles,      \* the list getTsFiles resolved to
    program,      \* what getSourceFile answered, per index of tsFiles
    fileIdx,      \* index of the file the forEach is at
    childIdx,     \* index of the child ts.forEachChild is at
    moduleInfo,   \* the local moduleInfo of the current file
    codebaseMap,  \* the local codebaseMap
    outcome,      \* how the call ended, as its caller sees it
    log,          \* method names handed to logError, in order
    opIn,         \* one extractor call: the operation and its node
    opOut,        \* what that call gave its caller
    manifests,    \* the directories that hold a package.json
    startDir,     \* the argument of findProjectRoot
    currentDir,   \* the loop variable of findProjectRoot
    rootPc,       \* position of findProjectRoot
    projectRoot,  \* what findProjectRoot returned
    httpCall,     \* one call of HttpClient: the operation and its arguments
    httpPc,       \* position of that call
    request,      \* the request of the sendRequest under way
    promise,      \* the promise of the sendRequest under way
    sent,         \* the methods of the requests ended so far, in order
    httpOut,      \* how the call of HttpClient ended, as its caller sees it
    uncaught,     \* whether a handler of the request threw into the event loop
    envFile,      \* the env file: Absent, or its lines as key-value pairs
    envVariables, \* this.envVariables of the EnvManager
    writes,       \* the fs.writeFile calls under way: what each will write
    envPc,        \* position of the EnvManager
    envFound,     \* what fs.existsSync answered in initializeEnv
    envCalls      \* how many set and remove calls were made

vars == <<cwd, typeChecker, previous, pc, tsFiles, program, fileIdx,
          childIdx, moduleInfo, codebaseMap, outcome, log, opIn, opOut,
          manifests, startDir, currentDir, rootPc, projectRoot,
          httpCall, httpPc, request, promise, sent, httpOut, uncaught,
          envFile, envVariables, writes, envPc, envFound, envCalls>>

runVars == <<cwd, typeChecker, previous, pc, tsFiles, program, fileIdx,
             childIdx, moduleInfo, codebaseMap, outcome, log>>

\* what a call of buildCodebaseMap reads and leaves alone
heldVars == <<cwd, typeChecker, previous>>

opVars == <<opIn, opOut>>

rootVars == <<manifests, startDir, currentDir, rootPc, projectRoot>>

httpVars == <<httpCall, httpPc, request, promise, sent, httpOut, uncaught>>

envVars == <<envFile, envVariables, writes, envPc, envFound, envCalls>>

-----------------------------------------------------------------------------
(* Bounds *)

\* the calls of set and remove made on one EnvManager
MaxCalls == 2

\* files one run discovers
MaxFiles == 2
\* nodes (top-level statements and class members) of one run's files
MaxNodes == 3
\* members of a class, interface or enum handed to one extractor call
MaxMembers == 4
\* parameters of a function handed to one extractor call
MaxParams == 2
\* depth of the deepest directory of the file system
MaxDepth == 4

-----------------------------------------------------------------------------
(* Nodes *)

Undefined == "undefined"
NoName == <<>>

\* the kinds of node whose symbol has a function type
FunctionLike(kind) ==
    kind \in {"FunctionDeclaration", "MethodDeclaration", "GetAccessor",
              "SetAccessor", "Constructor"}

\* typeChecker.typeToString(typeChecker.getTypeAtLocation(node)) of a
\* declaration node: the type of the declaration's symbol.  For a property,
\* a property signature or a parameter that is the annotated type, or the
\* inferred one when there is no annotation; for a function or a method it
\* is the type of the function, its signature, not its return type.
TypeToString(kind, typed) ==
    IF FunctionLike(kind)
    THEN IF typed THEN "() => declared" ELSE "() => inferred"
    ELSE IF typed THEN "declared" ELSE "inferred"

Node(kind, name, bad, typed, parameters, members) ==
    [kind |-> kind, name |-> name, bad |-> bad, typed |-> typed,
     resolved |-> TypeToString(kind, typed),
     text |-> <<kind, name>>, doc |-> "", initializer |-> Undefined,
     parameters |-> parameters, members |-> members]

Leaf(kind, name, bad, typed) == Node(kind, name, bad, typed, <<>>, <<>>)

\* the absent optional argument of a call
NoMember == Leaf("undefined", NoName, FALSE, FALSE)

isMethodDeclaration(n) == n.kind = "MethodDeclaration"
\* an interface declaration taken for a function declaration too
isFunctionOrInterface(n) ==
    n.kind \in {"FunctionDeclaration", "InterfaceDeclaration"}

isFunctionDeclaration(n) == n.kind = "FunctionDeclaration"
isPropertyDeclaration(n) == n.kind = "PropertyDeclaration"
\* a class declaration taken for an interface declaration too
isInterfaceOrClass(n) ==
    n.kind \in {"InterfaceDeclaration", "ClassDeclaration"}

isInterfaceDeclaration(n) == n.kind = "InterfaceDeclaration"
isEnumDeclaration(n) == n.kind = "EnumDeclaration"
isClassDeclaration(n) == n.kind = "ClassDeclaration"
isImportDeclaration(n) == n.kind = "ImportDeclaration"
\* a method signature taken for a property signature
isSignature(n) == n.kind \in {"PropertySignature", "MethodSignature"}

isPropertySignature(n) == n.kind = "PropertySignature"

\* s.map(f) and s.filter(p) of an array
Map(f(_), s) == [i \in 1..Len(s) |-> f(s[i])]
Filter(p(_), s) == SelectSeq(s, p)

\* some element's name cannot be read: name.getText raises on it
AnyUnreadable(s) == \E i \in 1..Len(s) : s[i].bad \/ s[i].name = NoName

-----------------------------------------------------------------------------
(* Result and the outcome of a call *)

\* Result.ok(data): new Result(true, data, message)
ResultOk(data) == [isSuccess |-> TRUE, data |-> data]

\* result.getValue()
getValue(result) == result.data

\* A call either returns a value or raises; either way it may have logged.
Returned(value, logged) ==
    [threw |-> FALSE, isNull |-> FALSE, value |-> value, logged |-> logged]
ReturnedNull ==
    [threw |-> FALSE, isNull |-> TRUE, value |-> <<>>, logged |-> <<>>]
Raised(logged) ==
    [threw |-> TRUE, isNull |-> FALSE, value |-> <<>>, logged |-> logged]

\* catch (error) { logError(error, method, ...); throw Error(error); }
LogAndRethrow(method, logged) == Raised(Append(logged, method))

-----------------------------------------------------------------------------
(* Declaration extractors *)

\* this.typeChecker?.typeToString(this.typeChecker.getTypeAtLocation(node))
getTypeAtLocation(node) ==
    ResultOk(IF typeChecker THEN node.resolved ELSE Undefined)

getComment(node) == node.doc

getPrintedNode(node) == node.text

\* a property without annotation left without a type, as a parameter is
extractPropertyParametersUninferred(node) ==
    IF node.bad \/ node.name = NoName
    THEN LogAndRethrow("extractPropertyParameters", <<>>)
    ELSE Returned(
           ResultOk([name |-> node.name,
                     type |-> IF node.typed
                              THEN getValue(getTypeAtLocation(node))
                              ELSE Undefined]),
           <<>>)

extractPropertyParameters(node) ==
    IF node.bad \/ node.name = NoName
    THEN LogAndRethrow("extractPropertyParameters", <<>>)
    ELSE Returned(
           ResultOk([name |-> node.name,
                     type |-> IF node.typed
                              THEN getValue(getTypeAtLocation(node))
                              ELSE IF typeChecker THEN node.resolved
                              ELSE Undefined]),
           <<>>)

\* the type of a parameter asked of the checker whether annotated or not
FunctionParameterInferred(param) ==
    [name |-> param.name, type |-> getValue(getTypeAtLocation(param))]

FunctionParameter(param) ==
    [name |-> param.name,
     type |-> IF param.typed THEN getValue(getTypeAtLocation(param))
              ELSE Undefined]

extractFunctionParameters(node) ==
    IF AnyUnreadable(node.parameters)
    THEN Raised(<<>>)
    ELSE Returned(ResultOk(Map(FunctionParameter, node.parameters)), <<>>)

functionDetailsMapper(name, content, parameters, node) ==
    [name |-> name, content |-> content, parameters |-> parameters,
     returnType |-> IF node.typed THEN getValue(getTypeAtLocation(node))
                    ELSE "any",
     comments |-> getComment(node)]

getFunctionDetails(node) ==
    IF node.name = NoName THEN ReturnedNull
    ELSE IF node.bad THEN LogAndRethrow("extractFunctionInfo", <<>>)
    ELSE LET params == extractFunctionParameters(node)
         IN  IF params.threw
             THEN LogAndRethrow("extractFunctionInfo", params.logged)
             ELSE Returned(
                    ResultOk(functionDetailsMapper(
                               node.name, getPrintedNode(node),
                               getValue(params.value), node)),
                    <<>>)

InterfaceProperty(prop) ==
    [name |-> prop.name,
     type |-> IF prop.typed THEN getValue(getTypeAtLocation(prop))
              ELSE "any"]

extractInterfaceInfo(node) ==
    IF node.bad \/ node.name = NoName
       \/ AnyUnreadable(Filter(isPropertySignature, node.members))
    THEN LogAndRethrow("extractInterfaceInfo", <<>>)
    ELSE Returned(
           ResultOk([name |-> node.name,
                     properties |->
                       Map(InterfaceProperty,
                           Filter(isPropertySignature, node.members)),
                     summary |-> getComment(node)]),
           <<>>)

EnumMember(member) == [name |-> member.name, value |-> member.initializer]

extractEnumInfo(node) ==
    IF node.bad \/ node.name = NoName \/ AnyUnreadable(node.members)
    THEN Raised(<<>>)
    ELSE Returned(
           ResultOk([name |-> node.name,
                     members |-> Map(EnumMember, node.members),
                     summary |-> getComment(node)]),
           <<>>)

-----------------------------------------------------------------------------
(* Member aggregator *)

\* unshift in place of push
PushFront(info, field, x) ==
    IF field \in DOMAIN info
    THEN [info EXCEPT ![field] = <<x>> \o @]
    ELSE info

\* info?.field?.push(x): nothing is pushed when info has no such array
Push(info, field, x) ==
    IF field \in DOMAIN info
    THEN [info EXCEPT ![field] = Append(@, x)]
    ELSE info

\* the extractor's raise is caught and the node skipped
PushValueOrSkip(info, field, r) ==
    IF r.threw THEN Returned(info, r.logged)
    ELSE Returned(Push(info, field, getValue(r.value)), r.logged)

\* the extractor's value is pushed unless the extractor raised
PushValue(info, field, r) ==
    IF r.threw THEN Raised(r.logged)
    ELSE Returned(Push(info, field, getValue(r.value)), r.logged)

\* one statement after another: a raise skips what follows
Then(prev, step(_)) ==
    IF prev.threw THEN prev
    ELSE LET r == step(prev.value)
         IN  [r EXCEPT !.logged = prev.logged \o @]

\* the function's details are read and not pushed
aggregateFunctionsDropped(currentElement, info) ==
    LET r == getFunctionDetails(currentElement)
    IN  IF r.threw THEN Raised(r.logged) ELSE Returned(info, <<>>)

\* a function without a name is recorded under no name
aggregateFunctionsUnnamed(currentElement, info) ==
    LET r == getFunctionDetails(currentElement)
    IN  IF r.isNull
        THEN Returned(Push(info, "functions",
                           functionDetailsMapper(NoName,
                                                 getPrintedNode(currentElement),
                                                 <<>>, currentElement)),
                      <<>>)
        ELSE PushValue(info, "functions", r)

aggregateFunctions(currentElement, info) ==
    LET r == getFunctionDetails(currentElement)
    IN  IF r.isNull THEN Returned(info, <<>>)
        ELSE PushValue(info, "functions", r)

processClassMembers(node, info, member) ==
    LET currentElement == IF member # NoMember THEN member ELSE node
        functions(i) ==
            IF isMethodDeclaration(currentElement)
               \/ isFunctionDeclaration(currentElement)
            THEN aggregateFunctions(currentElement, i)
            ELSE Returned(i, <<>>)
        properties(i) ==
            IF isPropertyDeclaration(currentElement)
            THEN PushValue(i, "properties",
                           extractPropertyParameters(currentElement))
            ELSE Returned(i, <<>>)
        interfaces(i) ==
            IF isInterfaceDeclaration(node)
            THEN PushValue(i, "interfaces", extractInterfaceInfo(node))
            ELSE Returned(i, <<>>)
        enums(i) ==
            IF isEnumDeclaration(node)
            THEN PushValue(i, "enums", extractEnumInfo(node))
            ELSE Returned(i, <<>>)
    IN  Then(Then(Then(functions(info), properties), interfaces), enums)

\* node.members.forEach(member => processClassMembers(node, .., member))
RECURSIVE ForEachMember(_, _, _)
ForEachMember(node, acc, i) ==
    IF acc.threw \/ i > Len(node.members) THEN acc
    ELSE ForEachMember(
           node,
           Then(acc, LAMBDA info :
                       processClassMembers(node, info, node.members[i])),
           i + 1)

extractClassMetaData(node) ==
    IF node.bad THEN LogAndRethrow("extractClassInfo", <<>>)
    ELSE LET classInfo == [name |-> node.name, functions |-> <<>>,
                           properties |-> <<>>, interfaces |-> <<>>,
                           enums |-> <<>>]
             r == ForEachMember(node, Returned(classInfo, <<>>), 1)
         IN  IF r.threw THEN LogAndRethrow("extractClassInfo", r.logged)
             ELSE Returned(ResultOk(r.value), r.logged)

-----------------------------------------------------------------------------
(* Module extraction *)

\* the conditions of processClassMembers that hold in one invocation, by
\* the collection their branch pushes to
RulesFired(node, member) ==
    LET currentElement == IF member # NoMember THEN member ELSE node
    IN  {rule \in {"functions", "properties", "interfaces", "enums"} :
           CASE rule = "functions" ->
                  isMethodDeclaration(currentElement)
                  \/ isFunctionDeclaration(currentElement)
             [] rule = "properties" -> isPropertyDeclaration(currentElement)
             [] rule = "interfaces" -> isInterfaceDeclaration(node)
             [] rule = "enums" -> isEnumDeclaration(node)}

\* printer.printNode(EmitHint.Unspecified, i, sourceFile)
PrintImport(i) == i.text

\* the texts without the repetitions
RECURSIVE Distinct(_)
Distinct(texts) ==
    IF texts = <<>> THEN <<>>
    ELSE LET rest == Distinct(SubSeq(texts, 1, Len(texts) - 1))
             last == texts[Len(texts)]
         IN  IF \E j \in 1..Len(rest) : rest[j] = last THEN rest
             ELSE Append(rest, last)

\* the imports of the file, each printed once
buildDependencyGraphDistinct(sourceFile) ==
    Distinct(Map(PrintImport,
                 Filter(isImportDeclaration, sourceFile.statements)))

buildDependencyGraph(sourceFile) ==
    Map(PrintImport, Filter(isImportDeclaration, sourceFile.statements))

\* the module of the previous call taken up again, were modules kept from
\* one call to the next
extractModuleInfoKept(sourceFile, relativePath) ==
    IF previous.called /\ previous.outcome.status = "resolved"
    THEN getValue(previous.outcome.value)[cwd[Len(cwd)]]
           .modules[relativePath]
    ELSE [path |-> relativePath, classes |-> <<>>, functions |-> <<>>,
          interfaces |-> <<>>, enums |-> <<>>,
          dependencies |-> buildDependencyGraph(sourceFile)]

extractModuleInfo(sourceFile, relativePath) ==
    [path |-> relativePath, classes |-> <<>>, functions |-> <<>>,
     interfaces |-> <<>>, enums |-> <<>>,
     dependencies |-> buildDependencyGraph(sourceFile)]

EndOfFileToken == Leaf("EndOfFileToken", NoName, FALSE, FALSE)

\* the statements alone
StatementsOnly(sourceFile) == sourceFile.statements

\* ts.forEachChild(sourceFile, cb) calls cb on each statement of the file
\* and then on its endOfFileToken
ForEachChild(sourceFile) == Append(sourceFile.statements, EndOfFileToken)

\* the callback, were it to aggregate a class's members into the module too
VisitNodeFlat(node, info) ==
    LET classes(i) ==
            IF isClassDeclaration(node)
            THEN PushValue(i, "classes", extractClassMetaData(node))
            ELSE Returned(i, <<>>)
        members(i) == processClassMembers(node, i, NoMember)
        flat(i) == ForEachMember(node, Returned(i, <<>>), 1)
    IN  Then(Then(classes(info), members), flat)

\* the callback buildCodebaseMap hands to ts.forEachChild, up to the
\* assignment into the map
VisitNode(node, info) ==
    LET classes(i) ==
            IF isClassDeclaration(node)
            THEN PushValue(i, "classes", extractClassMetaData(node))
            ELSE Returned(i, <<>>)
        members(i) == processClassMembers(node, i, NoMember)
    IN  Then(classes(info), members)

-----------------------------------------------------------------------------
(* Paths: a path is its sequence of segments *)

\* path.resolve(base, p) for a relative p
resolve(base, p) == base \o p

basename(p) == p[Len(p)]

RECURSIVE CommonPrefix(_, _, _)
CommonPrefix(a, b, n) ==
    IF n < Len(a) /\ n < Len(b) /\ a[n + 1] = b[n + 1]
    THEN CommonPrefix(a, b, n + 1)
    ELSE n

\* path.relative(from, to) of two absolute paths
relative(from, to) ==
    LET c == CommonPrefix(from, to, 0)
    IN  [i \in 1..(Len(from) - c) |-> ".."] \o SubSeq(to, c + 1, Len(to))

-----------------------------------------------------------------------------
(* The files of a run *)

\* what glob answers, relative to the working directory
FilePaths ==
    << <<"index.ts">>, <<"src", "a.ts">>, <<"src", "b.ts">>,
       <<"lib", "c.ts">> >>

WorkingDirs == { <<"home", "repo">>, <<"home", "repo", "pkg">> }

TopTags ==
    {"Import", "Function", "AnonFunction", "BadFunction", "Interface",
     "Enum", "BadEnum", "Variable"}

MemberTags == {"Method", "Property", "BadProperty"}

SeqsUpTo(S, n) == UNION {[1..k -> S] : k \in 0..n}

\* a top-level statement of at most b nodes: its tag and its members' tags
StatementShapes(b) ==
    IF b < 1 THEN {}
    ELSE {[tag |-> t, members |-> <<>>] : t \in TopTags}
         \cup {[tag |-> "Class", members |-> m] :
                 m \in SeqsUpTo(MemberTags, b - 1)}

Weight(shape) == 1 + Len(shape.members)

\* the statement lists of at most b nodes
RECURSIVE FileShapes(_)
FileShapes(b) ==
    {<<>>} \cup
    UNION {{<<s>> \o rest : rest \in FileShapes(b - Weight(s))} :
             s \in StatementShapes(b)}

\* the member at position pos of a class
MemberNode(tag, pos) ==
    CASE tag = "Method" -> Leaf("MethodDeclaration", pos, FALSE, TRUE)
      [] tag = "Property" -> Leaf("PropertyDeclaration", pos, FALSE, TRUE)
      [] tag = "BadProperty" -> Leaf("PropertyDeclaration", pos, TRUE, TRUE)

\* the statement at position pos of a file; a declaration is named after
\* its position, so that no two declarations of a run share a name
StatementNode(shape, pos) ==
    CASE shape.tag = "Import" ->
           Leaf("ImportDeclaration", pos, FALSE, FALSE)
      [] shape.tag = "Function" ->
           Leaf("FunctionDeclaration", pos, FALSE, TRUE)
      [] shape.tag = "AnonFunction" ->
           Leaf("FunctionDeclaration", NoName, FALSE, FALSE)
      [] shape.tag = "BadFunction" ->
           Leaf("FunctionDeclaration", pos, TRUE, FALSE)
      [] shape.tag = "Interface" ->
           Leaf("InterfaceDeclaration", pos, FALSE, FALSE)
      [] shape.tag = "Enum" ->
           Leaf("EnumDeclaration", pos, FALSE, FALSE)
      [] shape.tag = "BadEnum" ->
           Leaf("EnumDeclaration", pos, TRUE, FALSE)
      [] shape.tag = "Variable" ->
           Leaf("VariableStatement", NoName, FALSE, FALSE)
      [] shape.tag = "Class" ->
           Node("ClassDeclaration", pos, FALSE, FALSE, <<>>,
                [j \in 1..Len(shape.members) |->
                   MemberNode(shape.members[j], pos \o <<j>>)])

\* program.getSourceFile(filePath) found a parsed tree
SourceFile(f, shapes) ==
    [missing |-> FALSE,
     statements |-> [i \in 1..Len(shapes) |->
                       StatementNode(shapes[i], <<f, i>>)]]

\* program.getSourceFile(filePath) is undefined
NoSourceFile == [missing |-> TRUE, statements |-> <<>>]

RECURSIVE NodeCount(_)
NodeCount(nodes) ==
    IF nodes = <<>> THEN 0
    ELSE 1 + NodeCount(Head(nodes).members) + NodeCount(Tail(nodes))

RECURSIVE NodesOf(_)
NodesOf(files) ==
    IF files = <<>> THEN 0
    ELSE NodeCount(Head(files).statements) + NodesOf(Tail(files))

-----------------------------------------------------------------------------
(* buildCodebaseMap *)

NoModule == <<>>
EmptyMap == <<>>

Put(map, key, value) ==
    [k \in DOMAIN map \cup {key} |-> IF k = key THEN value ELSE map[k]]

Pending == [status |-> "pending", value |-> <<>>, error |-> ""]
Resolved(value) == [status |-> "resolved", value |-> value, error |-> ""]
Rejected(error) == [status |-> "rejected", value |-> <<>>, error |-> error]

\* the mapper has made no call of buildCodebaseMap yet
NoPrevious == [called |-> FALSE, outcome |-> Pending]

\* a path of the file system: absolute or relative, and its segments
Path(abs, segs) == [abs |-> abs, segs |-> segs]

\* findProjectRoot is not under way
NoRootCall ==
    /\ manifests = {}
    /\ startDir = Path(FALSE, <<>>)
    /\ currentDir = Path(FALSE, <<>>)
    /\ rootPc = "idle"
    /\ projectRoot = Path(FALSE, <<>>)

\* no extractor call is under way
NoCall == [op |-> "none", node |-> NoMember]
NotCalled == [called |-> FALSE, r |-> ReturnedNull]

\* what a variable of HttpClient holds before it is assigned
NoValue == [type |-> "undefined", truthy |-> FALSE]

\* the promise sendRequest returns, and the promise of an async method
Unsettled == [status |-> "pending", value |-> NoValue, error |-> ""]
Fulfilled(value) == [status |-> "resolved", value |-> value, error |-> ""]
Failed(error) == [status |-> "rejected", value |-> NoValue, error |-> error]

\* no options were handed to the method
NoOptions == [given |-> FALSE, method |-> ""]

\* no request was created
NoRequest == [stage |-> "none", method |-> "", payload |-> "undefined",
              statusCode |-> 0, data |-> ""]

\* no call of HttpClient is under way
NoHttpCall ==
    /\ httpCall = [op |-> "none", method |-> "", payload |-> "undefined",
                   options |-> NoOptions]
    /\ httpPc = "idle"
    /\ request = NoRequest
    /\ promise = Unsettled
    /\ sent = <<>>
    /\ httpOut = Unsettled
    /\ uncaught = FALSE

\* the path of the env file holds no file
Absent == [exists |-> FALSE, lines |-> <<>>]

\* no EnvManager is constructed
NoEnvManager ==
    /\ envFile = Absent
    /\ envVariables = <<>>
    /\ writes = <<>>
    /\ envPc = "idle"
    /\ envFound = FALSE
    /\ envCalls = 0

rootDir == cwd
repoNames == basename(rootDir)
filePath == tsFiles[fileIdx]
moduleRalativePath == relative(rootDir, resolve(cwd, filePath))
sourceFile == program[fileIdx]

\* this.program?.getSourceFile(filePath) for the file at index i: the
\* program was created by the constructor, so a path asked again has the
\* answer it had; a path not asked before has a tree within the budget of
\* nodes, or none
getSourceFile(i) ==
    IF i <= Len(program) THEN {program[i]}
    ELSE {NoSourceFile} \cup
         {SourceFile(i, shapes) :
            shapes \in FileShapes(MaxNodes - NodesOf(program))}

\* if (!sourceFile), were it never taken
NeverMissing(sf) == FALSE

\* if (!sourceFile)
sourceFileMissing(sf) == sf.missing

\* the module keyed by the file's base name
AttachByBaseName(map, repo, path, info) ==
    [map EXCEPT ![repo].modules = Put(@, <<basename(path)>>, info)]

\* the module stored under a project key of its own
AttachAsProject(map, repo, path, info) ==
    Put(map, basename(path), [modules |-> Put(EmptyMap, path, info)])

\* the module stored as it is at its first assignment, later ones ignored
AttachOnce(map, repo, path, info) ==
    IF path \in DOMAIN map[repo].modules THEN map
    ELSE [map EXCEPT ![repo].modules = Put(@, path, info)]

\* codebaseMap[repoNames].modules[moduleRalativePath] = moduleInfo
Attach(map, repo, path, info) ==
    [map EXCEPT ![repo].modules = Put(@, path, info)]

Init ==
    /\ cwd \in WorkingDirs
    /\ typeChecker = TRUE
    /\ previous = NoPrevious
    /\ NoRootCall
    /\ pc = "idle"
    /\ tsFiles = <<>>
    /\ program = <<>>
    /\ fileIdx = 0
    /\ childIdx = 0
    /\ moduleInfo = NoModule
    /\ codebaseMap = EmptyMap
    /\ outcome = Pending
    /\ log = <<>>
    /\ opIn = NoCall
    /\ opOut = NotCalled
    /\ NoHttpCall
    /\ NoEnvManager

\* the call, up to the await of getTsFiles
Begin ==
    /\ pc = "idle"
    /\ codebaseMap' = Put(EmptyMap, repoNames, [modules |-> EmptyMap])
    /\ pc' = "discover"
    /\ UNCHANGED <<heldVars, tsFiles, program, fileIdx, childIdx, moduleInfo,
                   outcome, log, opVars, rootVars, httpVars,
                   envVars>>

\* getTsFiles resolves; the forEach over tsFiles starts
Discover ==
    /\ pc = "discover"
    /\ ~previous.called
    /\ \E n \in 0..MaxFiles : tsFiles' = SubSeq(FilePaths, 1, n)
    /\ fileIdx' = 1
    /\ pc' = "loop"
    /\ UNCHANGED <<heldVars, program, childIdx, moduleInfo, codebaseMap,
                   outcome, log, opVars, rootVars, httpVars,
                   envVars>>

\* one turn of the forEach, up to the call of ts.forEachChild
Resolve ==
    /\ pc = "loop"
    /\ fileIdx <= Len(tsFiles)
    /\ \E sf \in getSourceFile(fileIdx) :
          /\ program' = IF fileIdx <= Len(program) THEN program
                        ELSE Append(program, sf)
          /\ IF sourceFileMissing(sf)
             THEN /\ pc' = "failed"
                  /\ outcome' = Rejected("No source file found")
                  /\ UNCHANGED <<moduleInfo, childIdx>>
             ELSE /\ pc' = "visit"
                  /\ moduleInfo' =
                        extractModuleInfo(sf, moduleRalativePath)
                  /\ childIdx' = 1
                  /\ UNCHANGED outcome
    /\ UNCHANGED <<heldVars, tsFiles, fileIdx, codebaseMap, log, opVars,
                   rootVars, httpVars,
                   envVars>>

\* one call of the callback of ts.forEachChild
Visit ==
    /\ pc = "visit"
    /\ childIdx <= Len(ForEachChild(sourceFile))
    /\ LET r == VisitNode(ForEachChild(sourceFile)[childIdx], moduleInfo)
       IN  /\ log' = log \o r.logged
           /\ IF r.threw
              THEN /\ pc' = "failed"
                   /\ outcome' = Rejected("extraction failed")
                   /\ UNCHANGED <<moduleInfo, codebaseMap, childIdx>>
              ELSE /\ moduleInfo' = r.value
                   /\ codebaseMap' = Attach(codebaseMap, repoNames,
                                            moduleRalativePath, r.value)
                   /\ childIdx' = childIdx + 1
                   /\ UNCHANGED <<pc, outcome>>
    /\ UNCHANGED <<heldVars, tsFiles, program, fileIdx, opVars, rootVars, httpVars,
                   envVars>>

\* the forEach, were it to move to the next file before ts.forEachChild has
\* visited every child
NextFileEarly ==
    /\ pc = "visit"
    /\ fileIdx' = fileIdx + 1
    /\ moduleInfo' = NoModule
    /\ pc' = "loop"
    /\ UNCHANGED <<heldVars, tsFiles, program, childIdx, codebaseMap, outcome,
                   log, opVars, rootVars, httpVars, envVars>>

\* the forEach, were it to take the same file again
NextFileAgain ==
    /\ pc = "visit"
    /\ childIdx > Len(ForEachChild(sourceFile))
    /\ moduleInfo' = NoModule
    /\ pc' = "loop"
    /\ UNCHANGED <<heldVars, tsFiles, program, fileIdx, childIdx, codebaseMap,
                   outcome, log, opVars, rootVars, httpVars, envVars>>

\* ts.forEachChild returns; the forEach moves to the next file
NextFile ==
    /\ pc = "visit"
    /\ childIdx > Len(ForEachChild(sourceFile))
    /\ fileIdx' = fileIdx + 1
    /\ moduleInfo' = NoModule
    /\ pc' = "loop"
    /\ UNCHANGED <<heldVars, tsFiles, program, childIdx, codebaseMap, outcome,
                   log, opVars, rootVars, httpVars,
                   envVars>>

\* the forEach is over: return Result.ok(codebaseMap)
Return ==
    /\ pc = "loop"
    /\ fileIdx > Len(tsFiles)
    /\ outcome' = Resolved(ResultOk(codebaseMap))
    /\ pc' = "done"
    /\ UNCHANGED <<heldVars, tsFiles, program, fileIdx, childIdx, moduleInfo,
                   codebaseMap, log, opVars, rootVars, httpVars,
                   envVars>>

Next == Begin \/ Discover \/ Resolve \/ Visit \/ NextFile \/ Return

Spec == Init /\ [][Next]_vars

\* the run is not held up: the promise of getTsFiles settles, and what
\* follows it is synchronous code
SpecLive == Init /\ [][Next]_vars /\ WF_vars(Next)

-----------------------------------------------------------------------------
(* Two calls of buildCodebaseMap on one mapper *)

\* the caller has the outcome of the first call and calls again; what the
\* first call left in its locals is out of reach of the second
Again ==
    /\ pc \in {"done", "failed"}
    /\ ~previous.called
    /\ previous' = [called |-> TRUE, outcome |-> outcome]
    /\ pc' = "idle"
    /\ outcome' = Pending
    /\ UNCHANGED <<cwd, typeChecker, tsFiles, program, fileIdx, childIdx,
                   moduleInfo, codebaseMap, log, opVars, rootVars, httpVars,
                   envVars>>

\* getTsFiles resolves to the list it resolved to before: the files on disk
\* have not changed between the two calls
DiscoverAgain ==
    /\ pc = "discover"
    /\ previous.called
    /\ fileIdx' = 1
    /\ pc' = "loop"
    /\ UNCHANGED <<heldVars, tsFiles, program, childIdx, moduleInfo,
                   codebaseMap, outcome, log, opVars, rootVars, httpVars,
                   envVars>>

NextTwice == Next \/ Again \/ DiscoverAgain

\* both calls are made in one working directory
InitTwice == Init /\ cwd = <<"home", "repo">>

SpecTwice == InitTwice /\ [][NextTwice]_vars

-----------------------------------------------------------------------------
(* One call of a public extractor on one node *)

ParamTags == {"Typed", "Untyped", "BadParam"}

ParamNode(tag, pos) ==
    CASE tag = "Typed" -> Leaf("Parameter", pos, FALSE, TRUE)
      [] tag = "Untyped" -> Leaf("Parameter", pos, FALSE, FALSE)
      [] tag = "BadParam" -> Leaf("Parameter", pos, TRUE, FALSE)

ClassMemberTags ==
    {"Method", "Property", "UntypedProperty", "BadProperty", "GetAccessor",
     "SetAccessor", "Constructor"}

ClassMemberNode(tag, pos) ==
    CASE tag = "Method" -> Leaf("MethodDeclaration", pos, FALSE, TRUE)
      [] tag = "Property" -> Leaf("PropertyDeclaration", pos, FALSE, TRUE)
      [] tag = "UntypedProperty" ->
           Leaf("PropertyDeclaration", pos, FALSE, FALSE)
      [] tag = "BadProperty" -> Leaf("PropertyDeclaration", pos, TRUE, TRUE)
      [] tag = "GetAccessor" -> Leaf("GetAccessor", pos, FALSE, TRUE)
      [] tag = "SetAccessor" ->
           Node("SetAccessor", pos, FALSE, FALSE,
                <<ParamNode("Typed", pos \o <<1>>)>>, <<>>)
      [] tag = "Constructor" -> Leaf("Constructor", NoName, FALSE, FALSE)

InterfaceMemberTags ==
    {"TypedSignature", "UntypedSignature", "MethodSignature", "BadSignature"}

InterfaceMemberNode(tag, pos) ==
    CASE tag = "TypedSignature" -> Leaf("PropertySignature", pos, FALSE, TRUE)
      [] tag = "UntypedSignature" ->
           Leaf("PropertySignature", pos, FALSE, FALSE)
      [] tag = "MethodSignature" -> Leaf("MethodSignature", pos, FALSE, TRUE)
      [] tag = "BadSignature" -> Leaf("PropertySignature", pos, TRUE, TRUE)

EnumMemberTags == {"Initialized", "Plain", "BadMember"}

EnumMemberNode(tag, pos) ==
    CASE tag = "Initialized" ->
           [Leaf("EnumMember", pos, FALSE, FALSE)
              EXCEPT !.initializer = "initializer"]
      [] tag = "Plain" -> Leaf("EnumMember", pos, FALSE, FALSE)
      [] tag = "BadMember" -> Leaf("EnumMember", pos, TRUE, FALSE)

\* the lists of at most n nodes made of the tags, each named by its index
NodeLists(tags, make(_, _), n) ==
    {[j \in 1..Len(ts) |-> make(ts[j], <<j>>)] : ts \in SeqsUpTo(tags, n)}

\* a declaration's name: readable, unreadable or absent
NameCases == {[name |-> <<0>>, bad |-> FALSE], [name |-> <<0>>, bad |-> TRUE],
              [name |-> NoName, bad |-> FALSE]}

ClassInputs ==
    {Node("ClassDeclaration", c.name, c.bad, FALSE, <<>>, ms) :
       c \in NameCases,
       ms \in NodeLists(ClassMemberTags, ClassMemberNode, MaxMembers)}

PropertyInputs ==
    {Leaf("PropertyDeclaration", c.name, c.bad, t) :
       c \in NameCases, t \in BOOLEAN}

FunctionInputs ==
    {Node(k, c.name, c.bad, t, ps, <<>>) :
       k \in {"FunctionDeclaration", "MethodDeclaration"},
       c \in NameCases, t \in BOOLEAN,
       ps \in NodeLists(ParamTags, ParamNode, MaxParams)}

InterfaceInputs ==
    {Node("InterfaceDeclaration", c.name, c.bad, FALSE, <<>>, ms) :
       c \in NameCases,
       ms \in NodeLists(InterfaceMemberTags, InterfaceMemberNode, MaxMembers)}

EnumInputs ==
    {Node("EnumDeclaration", c.name, c.bad, FALSE, <<>>, ms) :
       c \in NameCases,
       ms \in NodeLists(EnumMemberTags, EnumMemberNode, MaxMembers)}

DependencyTags == {"ImportTypes", "ImportUtils", "Function", "Variable"}

\* a top-level statement; an import is printed as its source text, so two
\* imports of one module print alike
DependencyNode(tag, pos) ==
    CASE tag = "ImportTypes" ->
           [Leaf("ImportDeclaration", NoName, FALSE, FALSE)
              EXCEPT !.text = <<"import", "./types">>]
      [] tag = "ImportUtils" ->
           [Leaf("ImportDeclaration", NoName, FALSE, FALSE)
              EXCEPT !.text = <<"import", "./utils">>]
      [] tag = "Function" -> Leaf("FunctionDeclaration", pos, FALSE, TRUE)
      [] tag = "Variable" -> Leaf("VariableStatement", NoName, FALSE, FALSE)

\* the source files handed to buildDependencyGraph
DependencyInputs ==
    {[missing |-> FALSE, statements |-> st] :
       st \in NodeLists(DependencyTags, DependencyNode, MaxMembers)}

Call(op, nodes) == {[op |-> op, node |-> n] : n \in nodes}

InitOps ==
    /\ cwd = <<"home", "repo">>
    /\ typeChecker \in BOOLEAN
    /\ previous = NoPrevious
    /\ NoRootCall
    /\ pc = "idle"
    /\ tsFiles = <<>>
    /\ program = <<>>
    /\ fileIdx = 0
    /\ childIdx = 0
    /\ moduleInfo = NoModule
    /\ codebaseMap = EmptyMap
    /\ outcome = Pending
    /\ log = <<>>
    /\ opIn \in Call("extractClassMetaData", ClassInputs)
                \cup Call("extractPropertyParameters", PropertyInputs)
                \cup Call("getFunctionDetails", FunctionInputs)
                \cup Call("extractFunctionParameters", FunctionInputs)
                \cup Call("extractInterfaceInfo", InterfaceInputs)
                \cup Call("extractEnumInfo", EnumInputs)
                \cup Call("buildDependencyGraph", DependencyInputs)
    /\ opOut = NotCalled
    /\ NoHttpCall
    /\ NoEnvManager

\* the call returns or raises to its caller
Finish(op, r) ==
    /\ opIn.op = op
    /\ ~opOut.called
    /\ opOut' = [called |-> TRUE, r |-> r]
    /\ UNCHANGED <<runVars, opIn, rootVars, httpVars,
                   envVars>>

CallExtractClassMetaData ==
    Finish("extractClassMetaData", extractClassMetaData(opIn.node))

CallExtractPropertyParameters ==
    Finish("extractPropertyParameters", extractPropertyParameters(opIn.node))

CallGetFunctionDetails ==
    Finish("getFunctionDetails", getFunctionDetails(opIn.node))

CallExtractFunctionParameters ==
    Finish("extractFunctionParameters", extractFunctionParameters(opIn.node))

CallExtractInterfaceInfo ==
    Finish("extractInterfaceInfo", extractInterfaceInfo(opIn.node))

CallExtractEnumInfo ==
    Finish("extractEnumInfo", extractEnumInfo(opIn.node))

CallBuildDependencyGraph ==
    Finish("buildDependencyGraph",
           Returned(buildDependencyGraph(opIn.node), <<>>))

NextOps ==
    \/ CallExtractClassMetaData
    \/ CallExtractPropertyParameters
    \/ CallGetFunctionDetails
    \/ CallExtractFunctionParameters
    \/ CallExtractInterfaceInfo
    \/ CallExtractEnumInfo
    \/ CallBuildDependencyGraph

SpecOps == InitOps /\ [][NextOps]_vars

-----------------------------------------------------------------------------
(* findProjectRoot *)

\* the directories of the file system: one below the other
DirNames == <<"home", "repo", "pkg", "src", "lib", "app">>

\* the absolute directories, the root directory <<>> among them
AllDirs == {SubSeq(DirNames, 1, k) : k \in 0..MaxDepth}

\* the relative path "."
Dot == Path(FALSE, <<".">>)

\* the arguments of findProjectRoot: an absolute directory, or a path
\* relative to the working directory, "" and "." among them
StartDirs ==
    {Path(TRUE, d) : d \in AllDirs}
    \cup {Path(FALSE, SubSeq(DirNames, Len(cwd) + 1, k)) :
            k \in Len(cwd)..MaxDepth}
    \cup {Dot}

\* path.parse(p).root: "/" of an absolute path, "" of a relative one
parseRoot(p) == Path(p.abs, <<>>)

\* path.dirname(p): the root is its own parent, and the parent of "", of
\* "." and of a relative path of one segment is "."
dirname(p) ==
    IF p.abs
    THEN IF p.segs = <<>> THEN p
         ELSE Path(TRUE, SubSeq(p.segs, 1, Len(p.segs) - 1))
    ELSE IF Len(p.segs) <= 1 THEN Dot
         ELSE Path(FALSE, SubSeq(p.segs, 1, Len(p.segs) - 1))

\* the directory a path names: a relative path is taken from process.cwd()
Absolute(p) ==
    IF p.abs THEN p.segs
    ELSE IF p = Dot THEN cwd
    ELSE cwd \o p.segs

\* fs.existsSync(path.join(currentDir, "package.json"))
existsSync(dir) == Absolute(dir) \in manifests

InitRoot ==
    /\ cwd \in WorkingDirs
    /\ typeChecker = TRUE
    /\ previous = NoPrevious
    /\ pc = "idle"
    /\ tsFiles = <<>>
    /\ program = <<>>
    /\ fileIdx = 0
    /\ childIdx = 0
    /\ moduleInfo = NoModule
    /\ codebaseMap = EmptyMap
    /\ outcome = Pending
    /\ log = <<>>
    /\ opIn = NoCall
    /\ opOut = NotCalled
    /\ NoHttpCall
    /\ NoEnvManager
    /\ manifests \in SUBSET AllDirs
    /\ startDir \in StartDirs
    /\ currentDir = Path(FALSE, <<>>)
    /\ rootPc = "idle"
    /\ projectRoot = Path(FALSE, <<>>)

\* the call: currentDir is the parameter
CallFindProjectRoot ==
    /\ rootPc = "idle"
    /\ currentDir' = startDir
    /\ rootPc' = "while"
    /\ UNCHANGED <<runVars, opVars, httpVars, envVars, manifests, startDir, projectRoot>>

\* while (currentDir !== path.parse(currentDir).root): the body is entered
EnterBody ==
    /\ rootPc = "while"
    /\ currentDir # parseRoot(currentDir)
    /\ rootPc' = "body"
    /\ UNCHANGED <<runVars, opVars, httpVars, envVars, manifests, startDir, currentDir,
                   projectRoot>>

\* if (fs.existsSync(packageJsonPath)) return currentDir
ReturnCurrentDir ==
    /\ rootPc = "body"
    /\ existsSync(currentDir)
    /\ projectRoot' = currentDir
    /\ rootPc' = "returned"
    /\ UNCHANGED <<runVars, opVars, httpVars, envVars, manifests, startDir, currentDir>>

\* currentDir = path.dirname(currentDir)
Ascend ==
    /\ rootPc = "body"
    /\ ~existsSync(currentDir)
    /\ currentDir' = dirname(currentDir)
    /\ rootPc' = "while"
    /\ UNCHANGED <<runVars, opVars, httpVars, envVars, manifests, startDir, projectRoot>>

\* the loop is left at the root: return process.cwd()
ReturnCwd ==
    /\ rootPc = "while"
    /\ currentDir = parseRoot(currentDir)
    /\ projectRoot' = Path(TRUE, cwd)
    /\ rootPc' = "returned"
    /\ UNCHANGED <<runVars, opVars, httpVars, envVars, manifests, startDir, currentDir>>

NextRoot ==
    \/ CallFindProjectRoot
    \/ EnterBody
    \/ ReturnCurrentDir
    \/ Ascend
    \/ ReturnCwd

\* the call is synchronous: a step that can be taken is taken
SpecRoot == InitRoot /\ [][NextRoot]_vars /\ WF_vars(NextRoot)

-----------------------------------------------------------------------------
(* Properties *)

Succeeded == outcome.status = "resolved"

\* the modules of the map the caller received
ReturnedModules == getValue(outcome.value)[cwd[Len(cwd)]].modules

\* the modules of the map being built
BuiltModules == codebaseMap[cwd[Len(cwd)]].modules

Names(records) == [j \in 1..Len(records) |-> records[j].name]

IsAccessor(n) == n.kind \in {"GetAccessor", "SetAccessor"}
IsNamedFunction(n) ==
    n.kind \in {"FunctionDeclaration", "MethodDeclaration"} /\ n.name # NoName
IsDeclaration(n) ==
    n.kind \in {"ClassDeclaration", "FunctionDeclaration",
                "InterfaceDeclaration", "EnumDeclaration"}

\* C1: extractClassMetaData appends one FunctionInfo per get or set accessor
\* of the class: the getter's has no parameters and a return type, the
\* setter's has one parameter and returnType "void".
C1_AccessorsAreFunctions ==
    (opOut.called /\ opIn.op = "extractClassMetaData" /\ ~opOut.r.threw) =>
        LET info == getValue(opOut.r.value)
            ms == opIn.node.members
        IN  \A j \in 1..Len(ms) : IsAccessor(ms[j]) =>
              \E e \in 1..Len(info.functions) :
                 /\ info.functions[e].name = ms[j].name
                 /\ ms[j].kind = "GetAccessor" =>
                      /\ info.functions[e].parameters = <<>>
                      /\ info.functions[e].returnType # Undefined
                 /\ ms[j].kind = "SetAccessor" =>
                      /\ Len(info.functions[e].parameters) = 1
                      /\ info.functions[e].returnType = "void"

\* C2: but for the missing parsed tree, a public operation never raises to
\* its caller: a failure comes back as a failure Result.
C2_FailuresAreReturned ==
    /\ opOut.called => ~opOut.r.threw
    /\ outcome.status = "rejected" => outcome.error = "No source file found"

\* C3: when getSourceFile has no tree for a discovered path the run raises
\* at that file: no later file is resolved or extracted and the caller
\* receives no map.
C3_MissingTreeAborts ==
    \A i \in 1..Len(program) : program[i].missing =>
        /\ pc = "failed"
        /\ outcome = Rejected("No source file found")
        /\ Len(program) = i
        /\ fileIdx = i
        /\ \A j \in i..Len(tsFiles) : tsFiles[j] \notin DOMAIN BuiltModules

C3_Witness ==
    /\ pc = "failed"
    /\ Len(tsFiles) = 2
    /\ Len(program) = 1
    /\ program[1].missing

\* reading the name of the node raises
Unreadable(n) == n.bad \/ n.name = NoName

MemberFails(m) ==
    \/ isMethodDeclaration(m) /\ m.name # NoName
         /\ (m.bad \/ AnyUnreadable(m.parameters))
    \/ isPropertyDeclaration(m) /\ Unreadable(m)

\* extraction of the top-level node raises
ExtractionFails(n) ==
    \/ isClassDeclaration(n)
         /\ (n.bad \/ \E j \in 1..Len(n.members) : MemberFails(n.members[j]))
    \/ isFunctionDeclaration(n) /\ n.name # NoName
         /\ (n.bad \/ AnyUnreadable(n.parameters))
    \/ isInterfaceDeclaration(n)
         /\ (Unreadable(n)
             \/ AnyUnreadable(Filter(isPropertySignature, n.members)))
    \/ isEnumDeclaration(n) /\ (Unreadable(n) \/ AnyUnreadable(n.members))

\* the callback has returned for statement k of file i
Passed(i, k) == i < fileIdx \/ (i = fileIdx /\ k < childIdx)

\* C4: when extraction of a node of a file fails the whole call fails: the
\* run never goes past the node and the caller receives no map, whatever
\* was extracted before.
C4_AnyFailureFailsTheCall ==
    /\ \A i \in 1..Len(program) : \A k \in 1..Len(program[i].statements) :
          ExtractionFails(program[i].statements[k]) =>
             /\ ~Passed(i, k)
             /\ ~Succeeded
    /\ pc = "failed" => outcome.status = "rejected"

C4_Witness ==
    /\ pc = "failed"
    /\ outcome = Rejected("extraction failed")
    /\ fileIdx = 2
    /\ tsFiles[1] \in DOMAIN BuiltModules
    /\ Len(BuiltModules[tsFiles[1]].functions) = 1

\* C5: after a successful run the keys of the modules map are the paths of
\* the discovered files relative to the root directory, one entry per
\* file, and the module stored under a key has that key as its path.
C5_OneModulePerFile ==
    Succeeded =>
        /\ DOMAIN ReturnedModules = {tsFiles[i] : i \in 1..Len(tsFiles)}
        /\ Cardinality(DOMAIN ReturnedModules) = Len(tsFiles)
        /\ \A k \in DOMAIN ReturnedModules : ReturnedModules[k].path = k

C5_Witness ==
    /\ Succeeded
    /\ Len(tsFiles) = 2
    /\ program[1].statements = <<>>
    /\ Len(program[2].statements) = 2

\* C6: in every state of a run the map has one project key, the base name
\* of the working directory.
C6_OneProjectKey ==
    /\ pc # "idle" => DOMAIN codebaseMap = {cwd[Len(cwd)]}
    /\ Succeeded => DOMAIN getValue(outcome.value) = {cwd[Len(cwd)]}

C6_Witness ==
    /\ Succeeded
    /\ cwd = <<"home", "repo", "pkg">>
    /\ DOMAIN getValue(outcome.value) = {"pkg"}
    /\ Cardinality(DOMAIN ReturnedModules) = 2

ImportTexts(statements) ==
    LET imports == SelectSeq(statements,
                             LAMBDA n : n.kind = "ImportDeclaration")
    IN  [j \in 1..Len(imports) |-> imports[j].text]

NoDeclarations(sf) ==
    \A k \in 1..Len(sf.statements) : ~IsDeclaration(sf.statements[k])

\* C7: a discovered file without a class, function, interface or enum
\* declaration, a file without statements included, has in the map of a
\* successful run a module with empty classes, functions, interfaces and
\* enums and with its import statements as dependencies.
C7_FileWithoutDeclarations ==
    Succeeded =>
        \A i \in 1..Len(tsFiles) : NoDeclarations(program[i]) =>
            /\ tsFiles[i] \in DOMAIN ReturnedModules
            /\ LET m == ReturnedModules[tsFiles[i]]
               IN  /\ m.classes = <<>>
                   /\ m.functions = <<>>
                   /\ m.interfaces = <<>>
                   /\ m.enums = <<>>
                   /\ m.dependencies = ImportTexts(program[i].statements)

C7_Witness ==
    /\ Succeeded
    /\ Len(tsFiles) = 2
    /\ program[1].statements = <<>>
    /\ Len(program[2].statements) = 2
    /\ program[2].statements[1].kind = "ImportDeclaration"
    /\ program[2].statements[2].kind = "VariableStatement"
    /\ Len(ReturnedModules[tsFiles[2]].dependencies) = 1

Count(p(_), s) == Len(SelectSeq(s, p))

\* the file holds one class, of named methods and properties alone
OnlyClass(sf) ==
    /\ Len(sf.statements) = 1
    /\ isClassDeclaration(sf.statements[1])
    /\ \A j \in 1..Len(sf.statements[1].members) :
          LET m == sf.statements[1].members[j]
          IN  (isMethodDeclaration(m) /\ m.name # NoName)
              \/ isPropertyDeclaration(m)

\* C8: a class of m named methods and p properties and nothing else gives
\* a ClassInfo with its name, m functions, p properties and no interfaces
\* or enums; a file holding the class alone gives a module with that one
\* class and no module-level function.
C8_MethodsAndProperties ==
    Succeeded =>
        \A i \in 1..Len(tsFiles) : OnlyClass(program[i]) =>
            LET class == program[i].statements[1]
                m == ReturnedModules[tsFiles[i]]
            IN  /\ Len(m.classes) = 1
                /\ m.functions = <<>>
                /\ m.classes[1].name = class.name
                /\ Len(m.classes[1].functions) =
                      Count(isMethodDeclaration, class.members)
                /\ Len(m.classes[1].properties) =
                      Count(isPropertyDeclaration, class.members)
                /\ m.classes[1].interfaces = <<>>
                /\ m.classes[1].enums = <<>>

C8_Witness ==
    /\ Succeeded
    /\ Len(tsFiles) >= 1
    /\ OnlyClass(program[1])
    /\ Len(ReturnedModules[tsFiles[1]].classes[1].functions) = 1
    /\ Len(ReturnedModules[tsFiles[1]].classes[1].properties) = 1

\* the statements of file i the callback has returned for
PassedStatements(i) ==
    LET s == program[i].statements
    IN  IF i < fileIdx THEN s
        ELSE IF childIdx - 1 < Len(s) THEN SubSeq(s, 1, childIdx - 1)
        ELSE s

NamesOf(p(_), nodes) == Names(SelectSeq(nodes, p))

\* the entries of a container follow the nodes they come from
ClassFollowsSource(info, class) ==
    /\ info.name = class.name
    /\ Names(info.functions) = NamesOf(IsNamedFunction, class.members)
    /\ Names(info.properties) = NamesOf(isPropertyDeclaration, class.members)

ModuleFollowsSource(m, statements) ==
    LET classes == SelectSeq(statements, isClassDeclaration)
    IN  /\ Names(m.functions) = NamesOf(IsNamedFunction, statements)
        /\ Names(m.interfaces) = NamesOf(isInterfaceDeclaration, statements)
        /\ Names(m.enums) = NamesOf(isEnumDeclaration, statements)
        /\ Len(m.classes) = Len(classes)
        /\ \A c \in 1..Len(classes) :
              ClassFollowsSource(m.classes[c], classes[c])

\* C9: the entries of classes, functions, properties, interfaces and enums
\* of a module and of a class are in the source order of their
\* declarations, every top-level child and every direct member having been
\* visited once.
C9_SourceOrder ==
    pc \notin {"idle", "discover"} =>
        \A i \in 1..Len(program) :
            IF tsFiles[i] \in DOMAIN BuiltModules
            THEN ModuleFollowsSource(BuiltModules[tsFiles[i]],
                                     PassedStatements(i))
            ELSE program[i].missing \/ (i = fileIdx /\ childIdx <= 1)

C9_Witness ==
    /\ Succeeded
    /\ Len(tsFiles) = 1
    /\ Len(ReturnedModules[tsFiles[1]].functions) = 2
    /\ Len(ReturnedModules[tsFiles[1]].enums) = 1
    /\ program[1].statements[2].kind = "EnumDeclaration"

RECURSIVE Flatten(_)
Flatten(seqs) ==
    IF seqs = <<>> THEN <<>> ELSE Head(seqs) \o Flatten(Tail(seqs))

\* the names of the records held by the classes of a module
ClassLevelNames(m) ==
    Flatten([c \in 1..Len(m.classes) |->
               Names(m.classes[c].functions)
               \o Names(m.classes[c].properties)
               \o Names(m.classes[c].interfaces)
               \o Names(m.classes[c].enums)])

\* the names of the records held by a module itself
ModuleLevelNames(m) ==
    Names(m.functions) \o Names(m.interfaces) \o Names(m.enums)

\* the names of all the records of the returned map
AllNames ==
    Flatten([i \in 1..Len(tsFiles) |->
               ModuleLevelNames(ReturnedModules[tsFiles[i]])
               \o ClassLevelNames(ReturnedModules[tsFiles[i]])])

NoDuplicates(s) == \A a, b \in 1..Len(s) : s[a] = s[b] => a = b

\* C10: after a successful run a record belongs to one container: a method
\* or property of a class is in that class's ClassInfo and in no
\* module-level array, and a top-level function, interface or enum is once
\* in the module of its file and nowhere else.
C10_OneContainer ==
    Succeeded =>
        /\ NoDuplicates(AllNames)
        /\ \A i \in 1..Len(tsFiles) :
              LET m == ReturnedModules[tsFiles[i]]
                  top == ModuleLevelNames(m)
              IN  /\ \A t \in 1..Len(top) :
                        /\ Len(top[t]) = 2
                        /\ top[t][1] = i
                  /\ \A c \in 1..Len(m.classes) :
                        LET own == Names(m.classes[c].functions)
                                   \o Names(m.classes[c].properties)
                        IN  \A o \in 1..Len(own) :
                               /\ Len(own[o]) = 3
                               /\ SubSeq(own[o], 1, 2) = m.classes[c].name

C10_Witness ==
    /\ Succeeded
    /\ Len(tsFiles) = 1
    /\ Len(ReturnedModules[tsFiles[1]].functions) = 1
    /\ Len(ReturnedModules[tsFiles[1]].classes) = 1
    /\ Len(ReturnedModules[tsFiles[1]].classes[1].functions) = 1

-----------------------------------------------------------------------------
(* Extraction of one declaration *)

\* the public operation op has returned or raised
Called(op) == opOut.called /\ opIn.op = op

\* C11: buildDependencyGraph returns one string per top-level import
\* statement of the file, in source order, a repeated import repeated, and
\* nothing for another statement: as many strings as import statements.
C11_OneStringPerImport ==
    Called("buildDependencyGraph") =>
        LET st == opIn.node.statements
            deps == opOut.r.value
            imports == {k \in 1..Len(st) : st[k].kind = "ImportDeclaration"}
        IN  /\ ~opOut.r.threw
            /\ Len(deps) = Cardinality(imports)
            /\ deps = ImportTexts(st)

C11_Witness ==
    /\ Called("buildDependencyGraph")
    /\ Len(opIn.node.statements) = 4
    /\ opIn.node.statements[1].kind = "ImportDeclaration"
    /\ opIn.node.statements[2].kind = "FunctionDeclaration"
    /\ opIn.node.statements[3].kind = "ImportDeclaration"
    /\ opIn.node.statements[4].kind = "ImportDeclaration"
    /\ opIn.node.statements[1].text = opIn.node.statements[4].text
    /\ opIn.node.statements[1].text # opIn.node.statements[3].text
    /\ Len(opOut.r.value) = 3

\* C12: getFunctionDetails answers null, neither a record nor a failure,
\* exactly for a function node without a name, and nothing is then pushed:
\* no functions array of the map holds an entry for a function without a
\* name or for a variable statement, a variable holding a function
\* expression or an arrow function included.
C12_AnonymousFunctionsSkipped ==
    pc \notin {"idle", "discover"} =>
        \A i \in 1..Len(program) :
            /\ \A k \in 1..Len(program[i].statements) :
                  LET n == program[i].statements[k]
                  IN  isFunctionDeclaration(n) =>
                        /\ getFunctionDetails(n).isNull <=> n.name = NoName
                        /\ n.name = NoName =>
                              /\ ~getFunctionDetails(n).threw
                              /\ ~VisitNode(n, moduleInfo).threw
            /\ tsFiles[i] \in DOMAIN BuiltModules =>
                  LET f == BuiltModules[tsFiles[i]].functions
                      st == PassedStatements(i)
                  IN  /\ \A e \in 1..Len(f) : f[e].name # NoName
                      /\ Len(f) = Cardinality({k \in 1..Len(st) :
                                                 IsNamedFunction(st[k])})

C12_Witness ==
    /\ Succeeded
    /\ Len(tsFiles) = 1
    /\ Len(program[1].statements) = 3
    /\ program[1].statements[1].kind = "FunctionDeclaration"
    /\ program[1].statements[1].name = NoName
    /\ program[1].statements[2].kind = "VariableStatement"
    /\ program[1].statements[3].kind = "FunctionDeclaration"
    /\ Names(ReturnedModules[tsFiles[1]].functions) =
          <<program[1].statements[3].name>>

\* the display string of the type an annotation names
AnnotatedType == TypeToString("TypeNode", TRUE)

\* C13: with the type checker at hand, the FunctionInfo of a named function
\* or method has as returnType the display string of its declared return
\* type, and "any" when it declares none.
C13_ReturnType ==
    (Called("getFunctionDetails") /\ typeChecker
       /\ ~opOut.r.threw /\ ~opOut.r.isNull) =>
        LET info == getValue(opOut.r.value)
        IN  /\ opIn.node.typed => info.returnType = AnnotatedType
            /\ ~opIn.node.typed => info.returnType = "any"

\* the property signatures among the members of an interface
Signatures(node) == SelectSeq(node.members, isPropertySignature)

\* C14: every property extractInterfaceInfo yields has a type: the display
\* string of its annotation when the type checker resolves it, and "any"
\* when the signature has no annotation or the checker answers no string.
C14_InterfacePropertyType ==
    (Called("extractInterfaceInfo") /\ ~opOut.r.threw) =>
        LET props == getValue(opOut.r.value).properties
            sigs == Signatures(opIn.node)
        IN  \A e \in 1..Len(props) :
               /\ props[e].type # Undefined
               /\ e <= Len(sigs) =>
                     props[e].type = IF sigs[e].typed /\ typeChecker
                                     THEN AnnotatedType ELSE "any"

\* C15: the properties extractInterfaceInfo returns are the property
\* signatures of the interface, one entry each, in member order; a method
\* signature or another member has no entry.
C15_OneEntryPerSignature ==
    (Called("extractInterfaceInfo") /\ ~opOut.r.threw) =>
        LET props == getValue(opOut.r.value).properties
            ms == opIn.node.members
            own == SelectSeq(ms, LAMBDA m : m.kind = "PropertySignature")
        IN  /\ Len(props) =
                  Cardinality({j \in 1..Len(ms) :
                                 ms[j].kind = "PropertySignature"})
            /\ Names(props) = Names(own)
            /\ \A j \in 1..Len(ms) : ms[j].kind # "PropertySignature" =>
                  \A e \in 1..Len(props) : props[e].name # ms[j].name

C15_Witness ==
    /\ Called("extractInterfaceInfo")
    /\ ~opOut.r.threw
    /\ Len(opIn.node.members) = 3
    /\ opIn.node.members[1].kind = "PropertySignature"
    /\ opIn.node.members[2].kind = "MethodSignature"
    /\ opIn.node.members[3].kind = "PropertySignature"
    /\ Names(getValue(opOut.r.value).properties) =
          <<opIn.node.members[1].name, opIn.node.members[3].name>>

\* C16: extractFunctionParameters returns one PropertyInfo per parameter, in
\* parameter order; an annotated parameter has the type the checker answers
\* for it, a parameter without annotation has type undefined whatever the
\* checker could infer.
C16_OnePropertyPerParameter ==
    (Called("extractFunctionParameters") /\ ~opOut.r.threw) =>
        LET props == getValue(opOut.r.value)
            ps == opIn.node.parameters
        IN  /\ Len(props) = Len(ps)
            /\ \A j \in 1..Len(ps) :
                  /\ props[j].name = ps[j].name
                  /\ props[j].type =
                        IF ps[j].typed /\ typeChecker THEN AnnotatedType
                        ELSE Undefined

C16_Witness ==
    /\ Called("extractFunctionParameters")
    /\ ~opOut.r.threw
    /\ typeChecker
    /\ Len(opIn.node.parameters) = 2
    /\ opIn.node.parameters[1].typed
    /\ ~opIn.node.parameters[2].typed
    /\ getValue(opOut.r.value)[1].type = AnnotatedType
    /\ getValue(opOut.r.value)[2].type = Undefined

\* the display string of the type the checker infers for a declaration
InferredType == TypeToString("PropertyDeclaration", FALSE)

\* C17: extractPropertyParameters returns the declared name with the display
\* string of the annotated type, or of the type the checker infers when
\* there is no annotation; the type is absent only when the checker is
\* unavailable, and the call fails only when the name cannot be read.
C17_PropertyNameAndType ==
    Called("extractPropertyParameters") =>
        /\ opOut.r.threw <=> Unreadable(opIn.node)
        /\ ~opOut.r.threw =>
              LET prop == getValue(opOut.r.value)
              IN  /\ prop.name = opIn.node.name
                  /\ prop.type = Undefined <=> ~typeChecker
                  /\ typeChecker =>
                        prop.type = IF opIn.node.typed THEN AnnotatedType
                                    ELSE InferredType

C17_Witness ==
    /\ Called("extractPropertyParameters")
    /\ ~opOut.r.threw
    /\ typeChecker
    /\ ~opIn.node.typed
    /\ getValue(opOut.r.value).type = InferredType

\* C18: when an extractor raises to its caller, logError has been called
\* before: the call handed at least one entry to the log.
C18_FailuresAreLogged ==
    (opOut.called /\ opOut.r.threw) => opOut.r.logged # <<>>

-----------------------------------------------------------------------------
(* Two runs *)

-----------------------------------------------------------------------------
(* The project root *)

\* the depths, on the way from startDir up to the root directory, the root
\* directory excluded, of the directories that hold a package.json
Holders ==
    {k \in 1..Len(Absolute(startDir)) :
       SubSeq(Absolute(startDir), 1, k) \in manifests}

\* the nearest of them, or the working directory when there is none
Nearest ==
    IF Holders = {} THEN cwd
    ELSE SubSeq(Absolute(startDir), 1,
                CHOOSE k \in Holders : \A h \in Holders : h <= k)

\* C20: findProjectRoot(startDir) returns, whatever startDir is, and it
\* returns the nearest directory from startDir upward, startDir included
\* and the root directory excluded, that holds a package.json, or the
\* working directory when there is none.
C20_FindProjectRoot ==
    <>(rootPc = "returned" /\ Absolute(projectRoot) = Nearest)

-----------------------------------------------------------------------------
(* The run in a project whose package.json is above the working directory *)

\* the directories that hold a package.json: the repository's own
ProjectManifests == { <<"home", "repo">> }

\* a mapper constructed in the repository or in its directory pkg
InitProject ==
    /\ cwd \in WorkingDirs
    /\ typeChecker = TRUE
    /\ previous = NoPrevious
    /\ manifests = ProjectManifests
    /\ startDir = Path(FALSE, <<>>)
    /\ currentDir = Path(FALSE, <<>>)
    /\ rootPc = "idle"
    /\ projectRoot = Path(FALSE, <<>>)
    /\ pc = "idle"
    /\ tsFiles = <<>>
    /\ program = <<>>
    /\ fileIdx = 0
    /\ childIdx = 0
    /\ moduleInfo = NoModule
    /\ codebaseMap = EmptyMap
    /\ outcome = Pending
    /\ log = <<>>
    /\ opIn = NoCall
    /\ opOut = NotCalled
    /\ NoHttpCall
    /\ NoEnvManager

SpecProject == InitProject /\ [][Next]_vars

\* the ancestors of the working directory, itself included, that hold a
\* package.json, by their depth
ManifestDepths == {k \in 1..Len(cwd) : SubSeq(cwd, 1, k) \in manifests}

\* the project root of the run: what findProjectRoot(process.cwd()) is to
\* return
ProjectRootDir ==
    IF ManifestDepths = {} THEN cwd
    ELSE SubSeq(cwd, 1,
                CHOOSE k \in ManifestDepths : \A h \in ManifestDepths : h <= k)

\* C21: the modules of the returned map are keyed by the path of their file
\* relative to the project root, the nearest directory from the working
\* directory upward that holds a package.json, and each module's path is
\* its key; so it is when the working directory is below the project root.
C21_PathsRelativeToProjectRoot ==
    Succeeded =>
        \A i \in 1..Len(tsFiles) :
            LET key == relative(ProjectRootDir, resolve(cwd, tsFiles[i]))
            IN  /\ key \in DOMAIN ReturnedModules
                /\ ReturnedModules[key].path = key

-----------------------------------------------------------------------------
(* HttpClient (README.md): one call of get, post, put, delete or           *)
(* inititateRequest.  The https module and the server are the environment: *)
(* a request that was ended is answered by a response of any status and    *)
(* body, or it emits "error".                                              *)

\* the status codes a response carries
StatusCodes == {200, 404, 499, 500, 503}

\* the text of a response: JSON of an object, the JSON text null, and text
\* that is no JSON
Bodies == {"{\"ok\":true}", "null", "<html>"}

\* what a caller hands as payload: a Buffer, a string, an object, nothing
Payloads == {"buffer", "string", "object", "undefined"}

\* the options a caller hands: none, or options that name no method
CallerOptions == {NoOptions, [given |-> TRUE, method |-> ""]}

\* the methods inititateRequest is called with, and its data
Methods == {"GET", "POST", "PUT", "DELETE"}
DataKinds == {"object", "undefined"}

\* JSON.parse(data)
JSONparse(data) ==
    CASE data = "{\"ok\":true}" ->
           [threw |-> FALSE, message |-> "",
            value |-> [type |-> "object", truthy |-> TRUE]]
      [] data = "null" ->
           [threw |-> FALSE, message |-> "",
            value |-> [type |-> "null", truthy |-> FALSE]]
      [] OTHER ->
           [threw |-> TRUE, message |-> "Unexpected token <",
            value |-> NoValue]

\* Buffer.from(JSON.stringify(data)): JSON.stringify(undefined) is
\* undefined, which Buffer.from refuses
BufferFrom(data) ==
    IF data = "undefined" THEN [threw |-> TRUE, value |-> "undefined"]
    ELSE [threw |-> FALSE, value |-> "buffer"]

\* generateRequestOptions(method, path, baseUrl, jwtToken)
generateRequestOptions(method) == [given |-> TRUE, method |-> method]

\* requestOptions = { method, ...options }: a method among the options
\* replaces the parameter
requestMethod(method, options) ==
    IF options.method = "" THEN method ELSE options.method

\* req.write(payload) takes a string or a Buffer and throws on anything else
writeThrows(payload) == payload \notin {"buffer", "string"}

\* resolve(value) and reject(error) settle a pending promise and leave a
\* settled one as it is
Settle(p, to) == IF p.status = "pending" THEN to ELSE p

\* sendRequest(method, options, payload) up to the promise it returns
sendRequest(method, options, payload) ==
    IF ~options.given
    THEN \* options.header = ... of undefined
         /\ promise' = Failed("TypeError: options is undefined")
         /\ UNCHANGED <<request, sent>>
    ELSE IF writeThrows(payload)
    THEN \* https.request(...), then req.write(payload) throws in the
         \* executor of the promise: req.end() is not reached
         /\ request' = [stage |-> "created",
                        method |-> requestMethod(method, options),
                        payload |-> payload, statusCode |-> 0, data |-> ""]
         /\ promise' = Failed("TypeError: invalid chunk")
         /\ UNCHANGED sent
    ELSE \* https.request(...); req.write(payload); req.end()
         /\ request' = [stage |-> "ended",
                        method |-> requestMethod(method, options),
                        payload |-> payload, statusCode |-> 0, data |-> ""]
         /\ promise' = Unsettled
         /\ sent' = Append(sent, requestMethod(method, options))

\* the handler of "end", were a status of 500 taken for a success
onEndInclusive(p, statusCode, data) ==
    IF statusCode # 0 /\ statusCode <= 500
    THEN IF JSONparse(data).threw
         THEN Settle(p, Failed("Failed to parse response data: "
                                 \o JSONparse(data).message))
         ELSE Settle(p, Fulfilled(JSONparse(data).value))
    ELSE Settle(p, Failed("Request failed with status code "
                            \o ToString(statusCode)))

\* what the handler of "end" does to the promise
onEnd(p, statusCode, data) ==
    IF statusCode # 0 /\ statusCode < 500
    THEN IF JSONparse(data).threw
         THEN Settle(p, Failed("Failed to parse response data: "
                                 \o JSONparse(data).message))
         ELSE Settle(p, Fulfilled(JSONparse(data).value))
    ELSE Settle(p, Failed("Request failed with status code "
                            \o ToString(statusCode)))

\* whether the handler of "end" throws into the event loop
onEndThrows(statusCode, data) ==
    statusCode # 0 /\ statusCode < 500 /\ JSONparse(data).threw

InitHttp ==
    /\ cwd \in WorkingDirs
    /\ typeChecker = TRUE
    /\ previous = NoPrevious
    /\ NoRootCall
    /\ pc = "idle"
    /\ tsFiles = <<>>
    /\ program = <<>>
    /\ fileIdx = 0
    /\ childIdx = 0
    /\ moduleInfo = NoModule
    /\ codebaseMap = EmptyMap
    /\ outcome = Pending
    /\ log = <<>>
    /\ opIn = NoCall
    /\ opOut = NotCalled
    /\ NoHttpCall
    /\ NoEnvManager

\* get(payload, options)
CallGet ==
    /\ httpPc = "idle"
    /\ \E payload \in Payloads, options \in CallerOptions :
          /\ httpCall' = [op |-> "get", method |-> "GET",
                          payload |-> payload, options |-> options]
          /\ sendRequest("GET", options, payload)
    /\ httpPc' = "await"
    /\ UNCHANGED <<runVars, opVars, rootVars, envVars, httpOut, uncaught>>

\* post(payload, options)
CallPost ==
    /\ httpPc = "idle"
    /\ \E payload \in Payloads, options \in CallerOptions :
          /\ httpCall' = [op |-> "post", method |-> "POST",
                          payload |-> payload, options |-> options]
          /\ sendRequest("POST", options, payload)
    /\ httpPc' = "await"
    /\ UNCHANGED <<runVars, opVars, rootVars, envVars, httpOut, uncaught>>

\* put(payload, options)
CallPut ==
    /\ httpPc = "idle"
    /\ \E payload \in Payloads, options \in CallerOptions :
          /\ httpCall' = [op |-> "put", method |-> "PUT",
                          payload |-> payload, options |-> options]
          /\ sendRequest("PUT", options, payload)
    /\ httpPc' = "await"
    /\ UNCHANGED <<runVars, opVars, rootVars, envVars, httpOut, uncaught>>

\* delete(options): sendRequest is called without a payload
CallDelete ==
    /\ httpPc = "idle"
    /\ \E options \in CallerOptions :
          /\ httpCall' = [op |-> "delete", method |-> "DELETE",
                          payload |-> "undefined", options |-> options]
          /\ sendRequest("DELETE", options, "undefined")
    /\ httpPc' = "await"
    /\ UNCHANGED <<runVars, opVars, rootVars, envVars, httpOut, uncaught>>

\* the response ends: the handler of "end" settles the promise
ResponseEnd ==
    /\ request.stage = "ended"
    /\ \E statusCode \in StatusCodes, data \in Bodies :
          /\ request' = [request EXCEPT !.stage = "answered",
                                        !.statusCode = statusCode,
                                        !.data = data]
          /\ promise' = onEnd(promise, statusCode, data)
          /\ uncaught' = (uncaught \/ onEndThrows(statusCode, data))
    /\ UNCHANGED <<runVars, opVars, rootVars, envVars, httpCall, httpPc, sent,
                   httpOut>>

\* the request emits "error": reject(error); throw error
RequestError ==
    /\ request.stage = "ended"
    /\ request' = [request EXCEPT !.stage = "errored"]
    /\ promise' = Settle(promise, Failed("socket hang up"))
    /\ uncaught' = TRUE
    /\ UNCHANGED <<runVars, opVars, rootVars, envVars, httpCall, httpPc, sent,
                   httpOut>>

\* the promise of get, post, put or delete follows the one of sendRequest
Settled ==
    /\ httpPc = "await"
    /\ promise.status # "pending"
    /\ httpOut' = promise
    /\ httpPc' = IF promise.status = "resolved" THEN "returned" ELSE "threw"
    /\ UNCHANGED <<runVars, opVars, rootVars, envVars, httpCall, request,
                   promise, sent, uncaught>>

\* case HTTP_VERBS.POST: of inititateRequest, up to its await
CasePost(options, data) ==
    IF BufferFrom(data).threw
    THEN /\ httpOut' = Failed("TypeError: Buffer.from(undefined)")
         /\ httpPc' = "threw"
         /\ UNCHANGED <<request, promise, sent>>
    ELSE /\ sendRequest("POST", options, BufferFrom(data).value)
         /\ httpPc' = "awaitPost"
         /\ UNCHANGED httpOut

\* inititateRequest(method, path, baseUrl, data), up to its first await or
\* to its end
CallInititateRequest ==
    /\ httpPc = "idle"
    /\ \E method \in Methods, data \in DataKinds :
          LET options == generateRequestOptions(method)
          IN  /\ httpCall' = [op |-> "inititateRequest", method |-> method,
                              payload |-> data, options |-> options]
              /\ CASE method = "GET" ->
                        /\ sendRequest("GET", options, "buffer")
                        /\ httpPc' = "awaitGet"
                        /\ UNCHANGED httpOut
                   [] method = "POST" -> CasePost(options, data)
                   [] OTHER ->
                        /\ httpOut' = Failed("API call failed")
                        /\ httpPc' = "threw"
                        /\ UNCHANGED <<request, promise, sent>>
    /\ UNCHANGED <<runVars, opVars, rootVars, envVars, uncaught>>

\* the await of this.get(...) is over: a rejection goes to the catch, which
\* rethrows it; a response is assigned and, the case having no break,
\* control falls into case HTTP_VERBS.POST
AfterGet ==
    /\ httpPc = "awaitGet"
    /\ promise.status # "pending"
    /\ IF promise.status = "rejected"
       THEN /\ httpOut' = promise
            /\ httpPc' = "threw"
            /\ UNCHANGED <<request, promise, sent>>
       ELSE CasePost(httpCall.options, httpCall.payload)
    /\ UNCHANGED <<runVars, opVars, rootVars, envVars, httpCall, uncaught>>

\* the await of this.post(...) is over: break; if (!response) throw;
\* return response
AfterPost ==
    /\ httpPc = "awaitPost"
    /\ promise.status # "pending"
    /\ IF promise.status = "rejected"
       THEN /\ httpOut' = promise
            /\ httpPc' = "threw"
       ELSE IF ~promise.value.truthy
       THEN /\ httpOut' = Failed("API call failed")
            /\ httpPc' = "threw"
       ELSE /\ httpOut' = promise
            /\ httpPc' = "returned"
    /\ UNCHANGED <<runVars, opVars, rootVars, envVars, httpCall, request,
                   promise, sent, uncaught>>

NextHttp ==
    \/ CallGet
    \/ CallPost
    \/ CallPut
    \/ CallDelete
    \/ CallInititateRequest
    \/ ResponseEnd
    \/ RequestError
    \/ Settled
    \/ AfterGet
    \/ AfterPost

SpecHttp == InitHttp /\ [][NextHttp]_vars

-----------------------------------------------------------------------------
(* The outcome of a request *)

\* the texts JSON.parse refuses, by the message of its SyntaxError
ParseErrors == {"Unexpected token <"}

\* the response of the request under way has ended
Answered == request.stage = "answered"

\* C22: once the response of a request sent by get, post, put or delete
\* has ended, the promise of the request is rejected with "Request failed
\* with status code <code>" when the status is 500 or more, resolved to the
\* parsed body when the status is below 500 and the body parses as JSON,
\* and rejected with a message that starts "Failed to parse response data"
\* when the status is below 500 and the body does not parse; a promise that
\* is settled stays as it was settled.
C22_OutcomeFixedByResponse ==
    /\ [](Answered =>
            IF request.statusCode >= 500
            THEN promise = Failed("Request failed with status code "
                                    \o ToString(request.statusCode))
            ELSE IF request.data \in {"{\"ok\":true}", "null"}
            THEN /\ promise.status = "resolved"
                 /\ promise.value = JSONparse(request.data).value
            ELSE /\ promise.status = "rejected"
                 /\ \E m \in ParseErrors :
                       promise.error =
                         "Failed to parse response data" \o ": " \o m)
    /\ [][(promise.status # "pending" /\ request'.method = request.method
             /\ request'.stage \notin {"created", "ended"})
          => promise' = promise]_vars

C22_Witness ==
    /\ httpCall.op = "put"
    /\ Answered
    /\ request.statusCode = 404
    /\ request.data = "{\"ok\":true}"
    /\ httpOut.status = "resolved"
    /\ sent = <<"PUT">>

-----------------------------------------------------------------------------
(* The requests of inititateRequest *)

\* the call of inititateRequest, made with data, is over
InitiateOver ==
    /\ httpCall.op = "inititateRequest"
    /\ httpCall.payload = "object"
    /\ httpPc \in {"returned", "threw"}

\* C28: a call of inititateRequest sends exactly one request, of the type
\* asked for: a GET call sends one GET and no POST, a POST call sends one
\* POST, and a call of any other method sends nothing and fails with "API
\* call failed"; a call that returns gives the response of its one request.
C28_OneRequestPerCall ==
    InitiateOver =>
        /\ httpCall.method \in {"GET", "POST"} =>
              /\ sent = <<httpCall.method>>
              /\ httpPc = "returned" => httpOut = promise
        /\ httpCall.method \notin {"GET", "POST"} =>
              /\ sent = <<>>
              /\ httpOut = Failed("API call failed")

-----------------------------------------------------------------------------
(* When a module is in the map *)

\* the key of the file at index i of tsFiles
KeyOf(i) == relative(cwd, resolve(cwd, tsFiles[i]))

\* the module of a file after the first k of its top-level children
RECURSIVE AfterChildren(_, _, _)
AfterChildren(children, k, info) ==
    IF k = 0 THEN info
    ELSE VisitNode(children[k], AfterChildren(children, k - 1, info)).value

\* the module of the file at index i after the first k of its children
ModuleAfter(i, k) ==
    AfterChildren(ForEachChild(program[i]), k,
                  extractModuleInfo(program[i], KeyOf(i)))

\* the module of the file at index i, every child visited
CompleteModule(i) == ModuleAfter(i, Len(ForEachChild(program[i])))

\* top-level children of the file at index i still wait to be visited
ChildrenWaiting(i) ==
    /\ pc = "visit"
    /\ fileIdx = i
    /\ childIdx <= Len(ForEachChild(program[i]))

\* C23, as stated: in no state of a run does the map hold a module for a
\* file while top-level children of that file still wait to be visited.
C23_OnlyCompleteModules ==
    pc \notin {"idle", "discover"} =>
        \A i \in 1..Len(tsFiles) :
            KeyOf(i) \in DOMAIN BuiltModules => ~ChildrenWaiting(i)

\* C23, amended: the module of the file being visited enters the map after
\* the first top-level child of the file and holds what the children
\* visited so far gave; the module of a file the run has left is in the map
\* and complete, a file the run has not reached has no module, and every
\* module of a returned map is complete.
C23_CompleteOnceLeft ==
    /\ pc = "visit" =>
          /\ IF childIdx = 1
             THEN KeyOf(fileIdx) \notin DOMAIN BuiltModules
             ELSE /\ KeyOf(fileIdx) \in DOMAIN BuiltModules
                  /\ BuiltModules[KeyOf(fileIdx)] = moduleInfo
                  /\ childIdx = 2 =>
                        moduleInfo = ModuleAfter(fileIdx, childIdx - 1)
          /\ \A i \in (fileIdx + 1)..Len(tsFiles) :
                KeyOf(i) \notin DOMAIN BuiltModules
    /\ pc = "loop" =>
          /\ \A i \in 1..(fileIdx - 1) :
                /\ KeyOf(i) \in DOMAIN BuiltModules
                /\ BuiltModules[KeyOf(i)] = CompleteModule(i)
          /\ \A i \in fileIdx..Len(tsFiles) :
                KeyOf(i) \notin DOMAIN BuiltModules
    /\ Succeeded =>
          \A i \in 1..Len(tsFiles) :
              ReturnedModules[KeyOf(i)] = CompleteModule(i)

C23_Witness ==
    /\ pc = "visit"
    /\ fileIdx = 2
    /\ childIdx = 2
    /\ Len(program[2].statements) = 2
    /\ KeyOf(2) \in DOMAIN BuiltModules
    /\ BuiltModules[KeyOf(2)] # CompleteModule(2)
    /\ BuiltModules[KeyOf(1)] = CompleteModule(1)

-----------------------------------------------------------------------------
(* The order of a run *)

\* the steps a run takes from one position to another
Order ==
    { <<"idle", "discover">>, <<"discover", "loop">>, <<"loop", "visit">>,
      <<"loop", "failed">>, <<"loop", "done">>, <<"visit", "loop">>,
      <<"visit", "failed">> }

\* the file at index i has its module in the map, every child visited
Attached(i) ==
    /\ KeyOf(i) \in DOMAIN BuiltModules
    /\ BuiltModules[KeyOf(i)] = CompleteModule(i)

\* C24: a run discovers the files, then takes them one at a time in the
\* order discovered: it resolves the tree of a file, visits its children in
\* order, has its module in the map and only then turns to the next file,
\* and it is done after the last; the list of files is assigned at
\* discovery only, the single point where the run waits for an answer, and
\* the tree of file i+1 is never resolved before file i is attached.
C24_OneFileAtATime ==
    /\ [](pc \in {"loop", "visit", "done"} =>
            /\ fileIdx \in 1..(Len(tsFiles) + 1)
            /\ Len(program) \in {fileIdx - 1, fileIdx}
            /\ pc = "visit" => Len(program) = fileIdx
            /\ pc = "done" => fileIdx = Len(tsFiles) + 1
            /\ \A i \in 1..(fileIdx - 1) : Attached(i))
    /\ [][/\ pc' # pc => <<pc, pc'>> \in Order
          /\ tsFiles' # tsFiles => pc = "discover"
          /\ fileIdx' # fileIdx =>
                \/ pc = "discover" /\ fileIdx' = 1
                \/ /\ pc = "visit" /\ pc' = "loop"
                   /\ fileIdx' = fileIdx + 1
                   /\ childIdx > Len(ForEachChild(sourceFile))
                   /\ Attached(fileIdx)
          /\ program' # program =>
                /\ pc = "loop"
                /\ Len(program') = fileIdx
                /\ SubSeq(program', 1, fileIdx - 1) = program
          /\ (pc = "visit" /\ pc' = "visit") => childIdx' = childIdx + 1
          /\ codebaseMap' # codebaseMap => pc \in {"idle", "visit"}]_vars

C24_Witness ==
    /\ pc = "visit"
    /\ fileIdx = 2
    /\ childIdx = 2
    /\ Len(program) = 2
    /\ Len(program[1].statements) = 1
    /\ Attached(1)
    /\ ~Attached(2)

-----------------------------------------------------------------------------
(* The end of a run *)

\* the run is over: every discovered file has its module in the returned
\* map, or the call was rejected
Terminal ==
    \/ /\ pc = "done"
       /\ Succeeded
       /\ \A i \in 1..Len(tsFiles) : KeyOf(i) \in DOMAIN ReturnedModules
    \/ /\ pc = "failed"
       /\ outcome.status = "rejected"

\* the steps one file takes at most: its Resolve, one visit for each child
\* and the step to the next file
StepsOfFile == MaxNodes + 3

\* the steps the run still has to take at most: a bound on what is left
\* of the forEach and of the traversal under way
StepsLeft ==
    CASE pc = "idle" -> MaxFiles * StepsOfFile + 3
      [] pc = "discover" -> MaxFiles * StepsOfFile + 2
      [] pc = "loop" -> (Len(tsFiles) + 1 - fileIdx) * StepsOfFile + 1
      [] pc = "visit" ->
           (Len(tsFiles) - fileIdx) * StepsOfFile
             + (Len(ForEachChild(sourceFile)) + 1 - childIdx) + 2
      [] OTHER -> 0

\* the guard of Visit, which assigns every variable whatever the callback
\* gives
CanVisit == pc = "visit" /\ childIdx <= Len(ForEachChild(sourceFile))

\* the run can take a step
CanStep ==
    \/ ENABLED Begin
    \/ ENABLED Discover
    \/ ENABLED Resolve
    \/ CanVisit
    \/ ENABLED NextFile
    \/ ENABLED Return

\* C25: every run over a finite list of files ends: it reaches the state
\* in which it is done and holds a module for every discovered file, or
\* the state in which it was aborted, and it does not stay in a state
\* between.  A run that is not over can take a step, every step brings
\* the run nearer to its end by at least one of the finitely many steps
\* left, and a run with no step left is over: the run, which is not held
\* up, ends.
C25_RunEnds ==
    /\ [](/\ StepsLeft \in Nat
          /\ ~Terminal => CanStep
          /\ StepsLeft = 0 => Terminal)
    /\ [][StepsLeft' < StepsLeft]_vars

C25_Witness ==
    /\ pc = "done"
    /\ Terminal
    /\ Len(tsFiles) = 2
    /\ Len(program[1].statements) = 0
    /\ Len(program[2].statements) = 2

-----------------------------------------------------------------------------
(* One invocation of the aggregator *)

RECURSIVE SumOf(_, _)
SumOf(f, S) ==
    IF S = {} THEN 0
    ELSE LET x == CHOOSE y \in S : TRUE
         IN  f[x] + SumOf(f, S \ {x})

\* how many records a container gained
Appended(before, after) ==
    SumOf([f \in DOMAIN before \ {"path", "name", "dependencies"} |->
             Len(after[f]) - Len(before[f])],
          DOMAIN before \ {"path", "name", "dependencies"})

\* a class that holds nothing yet
FreshClass(node) ==
    [name |-> node.name, functions |-> <<>>, properties |-> <<>>,
     interfaces |-> <<>>, enums |-> <<>>]

\* the records of the classes of a module
ClassRecords(m) ==
    SumOf([c \in 1..Len(m.classes) |->
             Len(m.classes[c].functions) + Len(m.classes[c].properties)
               + Len(m.classes[c].interfaces) + Len(m.classes[c].enums)],
          1..Len(m.classes))

\* one invocation of processClassMembers on a member of a class
OneRulePerMember(class) ==
    \A j \in 1..Len(class.members) :
        LET r == processClassMembers(class, FreshClass(class),
                                     class.members[j])
        IN  /\ Cardinality(RulesFired(class, class.members[j])) <= 1
            /\ ~r.threw => Appended(FreshClass(class), r.value) <= 1

\* C26: one invocation of the aggregator on one node, be it the callback
\* of buildCodebaseMap on a top-level child or processClassMembers on a
\* member, has at most one of its conditions hold and appends at most one
\* record to its container; only a class declaration has more than one
\* extraction made for it, the ones of its members.
C26_OneRulePerInvocation ==
    [][(pc = "visit" /\ pc' = "visit") =>
          LET node == ForEachChild(sourceFile)[childIdx]
          IN  /\ Cardinality(RulesFired(node, NoMember)) <= 1
              /\ Appended(moduleInfo, moduleInfo') <= 1
              /\ isClassDeclaration(node) =>
                    /\ RulesFired(node, NoMember) = {}
                    /\ OneRulePerMember(node)
              /\ ~isClassDeclaration(node) =>
                    ClassRecords(moduleInfo') = ClassRecords(moduleInfo)]_vars

C26_Witness ==
    /\ pc = "visit"
    /\ childIdx = 2
    /\ Len(sourceFile.statements) >= 1
    /\ isClassDeclaration(sourceFile.statements[1])
    /\ Len(sourceFile.statements[1].members) = 2
    /\ Len(moduleInfo.classes) = 1
    /\ Len(moduleInfo.classes[1].functions) = 1
    /\ Len(moduleInfo.classes[1].properties) = 1
    /\ Appended(extractModuleInfo(sourceFile, KeyOf(fileIdx)), moduleInfo) = 1

-----------------------------------------------------------------------------
(* The interfaces and enums of a class *)

-----------------------------------------------------------------------------
(* EnvManager: its construction and calls of set and remove.  The file     *)
(* system is the environment: a call of fs.writeFile is carried out off    *)
(* the thread of the program, first opening the file, which creates or     *)
(* empties it, then writing its content; the calls under way are carried   *)
(* out in no order the program controls.  A file is its lines, a line the  *)
(* text before its first "=" and the text after it ("" when the line has   *)
(* no "=").                                                                *)

EnvKeys == {"A", "B"}
EnvValues == {"1", "2"}

\* a line key=value
Line(k, v) == [key |-> k, value |-> v]

\* the file fs.writeFile(path, "# Environment Variables\n") leaves
Header == << Line("# Environment Variables", "") >>

\* a file of the given lines
File(lines) == [exists |-> TRUE, lines |-> lines]

\* the env file before the EnvManager is constructed: none, an empty one,
\* or one that holds a variable
InitialFiles == {Absent, File(<<>>), File(<<Line("A", "1")>>)}

\* the positions of key k in the variables
At(variables, k) == {i \in 1..Len(variables) : variables[i].key = k}

\* this.envVariables[k] = v: a key keeps its place, a new key goes last
Assign(variables, k, v) ==
    IF At(variables, k) = {} THEN Append(variables, Line(k, v))
    ELSE [i \in 1..Len(variables) |->
            IF variables[i].key = k THEN Line(k, v) ELSE variables[i]]

\* delete this.envVariables[k]
Delete(variables, k) == SelectSeq(variables, LAMBDA l : l.key # k)

\* the loop of loadEnvVariables over the lines from position i on: a line
\* without key or without value is passed over
RECURSIVE loadLines(_, _, _)
loadLines(lines, i, variables) ==
    IF i > Len(lines) THEN variables
    ELSE loadLines(lines, i + 1,
                   IF lines[i].key # "" /\ lines[i].value # ""
                   THEN Assign(variables, lines[i].key, lines[i].value)
                   ELSE variables)

\* the content updateEnvFile builds: one line k=v per variable
envContent(variables) == variables

\* a call of fs.writeFile that has not opened the file yet
Write(content) == [content |-> content, opened |-> FALSE]

\* what is left of a line that was written over in part: text without "="
Garbage == Line("", "")

\* the lines of a file after content is written from its start on, the file
\* not emptied in between: what lies behind the content stays.  The lines
\* key=value are of one length; the content of no variable is one line
\* break, which cuts the first line there was; the header is longer than
\* the lines of all variables together.
Overlay(lines, content) ==
    IF lines = <<>> THEN content
    ELSE IF content = <<>> THEN <<Garbage>> \o Tail(lines)
    ELSE IF content = Header THEN Header
    ELSE IF lines = Header THEN Append(content, Garbage)
    ELSE content \o SubSeq(lines, Len(content) + 1, Len(lines))

\* the sequence without its element at position i
Without(s, i) == SubSeq(s, 1, i - 1) \o SubSeq(s, i + 1, Len(s))

InitEnv ==
    /\ cwd \in WorkingDirs
    /\ typeChecker = TRUE
    /\ previous = NoPrevious
    /\ NoRootCall
    /\ pc = "idle"
    /\ tsFiles = <<>>
    /\ program = <<>>
    /\ fileIdx = 0
    /\ childIdx = 0
    /\ moduleInfo = NoModule
    /\ codebaseMap = EmptyMap
    /\ outcome = Pending
    /\ log = <<>>
    /\ opIn = NoCall
    /\ opOut = NotCalled
    /\ NoHttpCall
    /\ envFile \in InitialFiles
    /\ envVariables = <<>>
    /\ writes = <<>>
    /\ envPc = "idle"
    /\ envFound = FALSE
    /\ envCalls = 0

\* new EnvManager(envPath), up to the return of fs.writeFile in
\* initializeEnv when the file is not found
Construct ==
    /\ envPc = "idle"
    /\ envFound' = envFile.exists
    /\ writes' = IF envFile.exists THEN writes
                 ELSE Append(writes, Write(Header))
    /\ envPc' = "init"
    /\ UNCHANGED <<runVars, opVars, rootVars, httpVars, envFile,
                   envVariables, envCalls>>

\* the rest of initializeEnv: dotenv.config, which keeps a failure to
\* itself, and loadEnvVariables, whose fs.readFileSync throws when there
\* is no file
Load ==
    /\ envPc = "init"
    /\ IF envFile.exists
       THEN /\ envVariables' = loadLines(envFile.lines, 1, envVariables)
            /\ envPc' = "ready"
       ELSE /\ envPc' = "threw"
            /\ UNCHANGED envVariables
    /\ UNCHANGED <<runVars, opVars, rootVars, httpVars, envFile, writes,
                   envFound, envCalls>>

\* set(key, value)
Set ==
    /\ envPc = "ready"
    /\ envCalls < MaxCalls
    /\ \E k \in EnvKeys, v \in EnvValues :
          /\ envVariables' = Assign(envVariables, k, v)
          /\ writes' = Append(writes,
                              Write(envContent(Assign(envVariables, k, v))))
    /\ envCalls' = envCalls + 1
    /\ UNCHANGED <<runVars, opVars, rootVars, httpVars, envFile, envPc,
                   envFound>>

\* remove(key)
Remove ==
    /\ envPc = "ready"
    /\ envCalls < MaxCalls
    /\ \E k \in EnvKeys :
          /\ envVariables' = Delete(envVariables, k)
          /\ writes' = Append(writes,
                              Write(envContent(Delete(envVariables, k))))
    /\ envCalls' = envCalls + 1
    /\ UNCHANGED <<runVars, opVars, rootVars, httpVars, envFile, envPc,
                   envFound>>

\* a call of fs.writeFile under way opens the file: the file is created,
\* or emptied
OpenFile ==
    /\ \E i \in 1..Len(writes) :
          /\ ~writes[i].opened
          /\ writes' = [writes EXCEPT ![i].opened = TRUE]
    /\ envFile' = File(<<>>)
    /\ UNCHANGED <<runVars, opVars, rootVars, httpVars, envVariables, envPc,
                   envFound, envCalls>>

\* a call of fs.writeFile that opened the file writes its content and is
\* over
WriteFile ==
    /\ \E i \in 1..Len(writes) :
          /\ writes[i].opened
          /\ envFile' = File(Overlay(envFile.lines, writes[i].content))
          /\ writes' = Without(writes, i)
    /\ UNCHANGED <<runVars, opVars, rootVars, httpVars, envVariables, envPc,
                   envFound, envCalls>>

NextEnv == Construct \/ Load \/ Set \/ Remove \/ OpenFile \/ WriteFile

SpecEnv == InitEnv /\ [][NextEnv]_vars

-----------------------------------------------------------------------------
(* The env file after set and remove *)

\* the variables a file holds
Held(file) == loadLines(file.lines, 1, <<>>)

\* as maps, the two hold the same variables
SameVariables(a, b) ==
    /\ {l.key : l \in {a[i] : i \in 1..Len(a)}}
         = {l.key : l \in {b[i] : i \in 1..Len(b)}}
    /\ \A i \in 1..Len(a) : \A j \in 1..Len(b) :
          a[i].key = b[j].key => a[i].value = b[j].value

\* C29: after calls of set and remove on an EnvManager whose file was
\* there when it was constructed, once every write has been carried out,
\* the env file holds the variables the EnvManager holds in memory: a
\* write of an earlier call does not replace the content of a later one.
C29_FileFollowsMemory ==
    (envPc = "ready" /\ envFound /\ envCalls > 0 /\ writes = <<>>) =>
        SameVariables(Held(envFile), envVariables)

\* C30: constructing an EnvManager on a path that holds no file creates
\* the file and loads it without an error, however the creation of the
\* file and the rest of the constructor fall in time.
C30_CreatesThenLoads ==
    (envPc \in {"ready", "threw"} /\ ~envFound) =>
        /\ envPc = "ready"
        /\ envFile.exists

====
